---- MODULE Spec2Model ----
(***************************************************************************)
(* A model of whoarder's clippings reader (src/whoarder/clippings.py):     *)
(* the regular expressions of ClippingsIterator, its __parse and __next__, *)
(* and Clippings.__init__/_fetch which drives them.                        *)
(*                                                                         *)
(* Text.  A Python str is modelled as a sequence of tokens, each token a   *)
(* run of characters that the patterns of the source treat as a unit: a    *)
(* keyword of a pattern ("Your", "Location", ...), a punctuation           *)
(* character, or a generic word.  Every piece of a pattern that follows a  *)
(* variable-length piece starts with a one-character literal that occurs   *)
(* in no longer token, so a match never ends inside a token.  The Chinese  *)
(* keywords and the full-width brackets are written in ASCII:              *)
(*   "nin_zai" 您在   "di" 第   "ye" 页   "wei_zhi" 位置   "de" 的          *)
(*   "biao_zhu" 标注   "bi_ji" 笔记   "tian_jia_yu" 添加于                  *)
(*   "(("  （    "))"  ）    "[["  【    "]]"  】                           *)
(* re.IGNORECASE is not modelled: the inputs use the patterns' own case.   *)
(* A Python value that may be None is a record [none, s].                  *)
(***************************************************************************)
EXTENDS Integers, Sequences, FiniteSets, TLC

VARIABLES
    lines,                \* ClippingsIterator.lines
    cursor,               \* ClippingsIterator.cursor (0-based, as in the source)
    ret,                  \* how the last __next__ call ended, with its locals start and cur
    clippings,            \* Clippings.clippings
    book_author_couples,  \* Clippings.book_author_couples
    pc,                   \* where Clippings.__init__ is: "fetch", "done" or "raised"
    yielded,              \* the blocks __next__ has handed to __parse, in order
    exposed               \* what the caller of Clippings(source) holds

vars == <<lines, cursor, ret, clippings, book_author_couples, pc, yielded, exposed>>

----------------------------------------------------------------------------
(* Python values *)

None == [none |-> TRUE, s |-> <<>>]
Some(s) == [none |-> FALSE, s |-> s]

\* Python truthiness of an Optional[str]: None and '' are false
Truthy(x) == ~x.none /\ x.s # <<>>

----------------------------------------------------------------------------
(* Tokens and character classes *)

WordTokens ==
    {"w", "v", "7", "Your", "on", "at", "Page", "Unnumbered", "This", "Article",
     "Location", "Loc", "Added", "Highlight", "Note", "page",
     "nin_zai", "di", "ye", "wei_zhi", "de", "biao_zhu", "bi_ji", "tian_jia_yu"}

SpaceTokens == {" ", "\n"}

PunctTokens == {"-", ".", "|", "#", "(", ")", "[", "]", "((", "))", "[[", "]]", "=", ","}

Tokens == WordTokens \cup SpaceTokens \cup PunctTokens

\* '.' without re.DOTALL: any character but a newline
Dot == Tokens \ {"\n"}

\* [^()]
NotParen == Tokens \ {"(", ")"}

----------------------------------------------------------------------------
(* Regular expressions: a pattern is a sequence of nodes *)

GroupNames == {"book", "author", "g1", "type", "page", "location", "date"}

Node(k, s, sub, alts, n) == [k |-> k, s |-> s, sub |-> sub, alts |-> alts, n |-> n]

Cls(S) == <<Node("cls", S, <<>>, <<>>, "")>>
Lit(t) == Cls({t})
\* greedy  x*
Star(sub) == <<Node("star", {}, sub, <<>>, "")>>
\* lazy  x*?
Lazy(sub) == <<Node("lazy", {}, sub, <<>>, "")>>
\* greedy  x?
Opt(sub) == <<Node("opt", {}, sub, <<>>, "")>>
\* a|b|c, tried left to right
Alt(alts) == <<Node("alt", {}, <<>>, alts, "")>>
\* a capturing group
Grp(n, sub) == <<Node("open", {}, <<>>, <<>>, n)>> \o sub \o <<Node("close", {}, <<>>, <<>>, n)>>
\* $
Eos == <<Node("eos", {}, <<>>, <<>>, "")>>

RECURSIVE Word(_)
\* a literal run of text
Word(ts) == IF ts = <<>> THEN <<>> ELSE Lit(Head(ts)) \o Word(Tail(ts))

NoMatch == [ok |-> FALSE, v |-> [g \in GroupNames |-> None]]

RECURSIVE Run(_, _, _, _, _)
RECURSIVE RunAlts(_, _, _, _, _, _)
\* The backtracking matcher of Python's re: the first match in priority order.
\* nodes is what is left of the pattern, pos the 1-based position in s,
\* st the start of each open group, v the groups captured so far.
Run(nodes, s, pos, st, v) ==
    IF nodes = <<>> THEN [ok |-> TRUE, v |-> v]
    ELSE
      LET n == Head(nodes)
          rest == Tail(nodes)
      IN  CASE n.k = "cls" ->
                 IF pos <= Len(s) /\ s[pos] \in n.s
                 THEN Run(rest, s, pos + 1, st, v)
                 ELSE NoMatch
            [] n.k = "eos" ->
                 IF pos = Len(s) + 1 THEN Run(rest, s, pos, st, v) ELSE NoMatch
            [] n.k = "open" ->
                 Run(rest, s, pos, [st EXCEPT ![n.n] = pos], v)
            [] n.k = "close" ->
                 Run(rest, s, pos, st,
                     [v EXCEPT ![n.n] = Some(SubSeq(s, st[n.n], pos - 1))])
            [] n.k = "opt" ->
                 LET r == Run(n.sub \o rest, s, pos, st, v)
                 IN  IF r.ok THEN r ELSE Run(rest, s, pos, st, v)
            [] n.k = "star" ->
                 LET r == Run(n.sub \o <<n>> \o rest, s, pos, st, v)
                 IN  IF r.ok THEN r ELSE Run(rest, s, pos, st, v)
            [] n.k = "lazy" ->
                 LET r == Run(rest, s, pos, st, v)
                 IN  IF r.ok THEN r ELSE Run(n.sub \o <<n>> \o rest, s, pos, st, v)
            [] n.k = "alt" ->
                 RunAlts(n.alts, rest, s, pos, st, v)

RunAlts(alts, rest, s, pos, st, v) ==
    IF alts = <<>> THEN NoMatch
    ELSE LET r == Run(Head(alts) \o rest, s, pos, st, v)
         IN  IF r.ok THEN r ELSE RunAlts(Tail(alts), rest, s, pos, st, v)

\* pattern.search(s) / pattern.match(s) for a pattern that starts with ^
Search(pattern, s) ==
    Run(pattern, s, 1, [g \in GroupNames |-> 1], [g \in GroupNames |-> None])

----------------------------------------------------------------------------
(* The patterns of ClippingsIterator *)

\* ^(?P<book>.*?)(\ \((\[.*\])?(?P<author>[^()]*?)\ ?(\(.*\))?\))?$
clipping_line1 ==
    Grp("book", Lazy(Cls(Dot)))
    \o Opt(Word(<<" ", "(">>)
           \o Opt(Lit("[") \o Star(Cls(Dot)) \o Lit("]"))
           \o Grp("author", Lazy(Cls(NotParen)))
           \o Opt(Lit(" "))
           \o Opt(Lit("(") \o Star(Cls(Dot)) \o Lit(")"))
           \o Lit(")"))
    \o Eos

\* ^(.*?)(【.*】|\ \(.*\)|（.*）)*$
clipping_book ==
    Grp("g1", Lazy(Cls(Dot)))
    \o Star(Alt(<<Lit("[[") \o Star(Cls(Dot)) \o Lit("]]"),
                  Word(<<" ", "(">>) \o Star(Cls(Dot)) \o Lit(")"),
                  Lit("((") \o Star(Cls(Dot)) \o Lit("))")>>))
    \o Eos

\* ^-\ (?:Your\ )?(?P<type>\w*)
\* (\ (?:on\ )?(?P<page>Unnumbered\ Page|Page\ .*)\ \|)?
\* (?:\ This\ Article)?
\* \ (?:on\ |at\ )?(Location|Loc\.)\ (?P<location>.*)
\* \ \|\ Added\ on\ (?P<date>.*)$
clipping_line2_english ==
    Word(<<"-", " ">>)
    \o Opt(Word(<<"Your", " ">>))
    \o Grp("type", Star(Cls(WordTokens)))
    \o Opt(Lit(" ")
           \o Opt(Word(<<"on", " ">>))
           \o Grp("page", Alt(<<Word(<<"Unnumbered", " ", "Page">>),
                                Word(<<"Page", " ">>) \o Star(Cls(Dot))>>))
           \o Word(<<" ", "|">>))
    \o Opt(Word(<<" ", "This", " ", "Article">>))
    \o Lit(" ")
    \o Opt(Alt(<<Word(<<"on", " ">>), Word(<<"at", " ">>)>>))
    \o Alt(<<Lit("Location"), Word(<<"Loc", ".">>)>>)
    \o Lit(" ")
    \o Grp("location", Star(Cls(Dot)))
    \o Word(<<" ", "|", " ", "Added", " ", "on", " ">>)
    \o Grp("date", Star(Cls(Dot)))
    \o Eos

\* ^-\ (您在)(第\ (?P<page>\w*)\ 页)?(（?位置\ \#(?P<location>.*?)）?)?
\* 的(?P<type>(标注|笔记))
\* \ \|\ 添加于\ (?P<date>.*)$
clipping_line2_chinese ==
    Word(<<"-", " ", "nin_zai">>)
    \o Opt(Word(<<"di", " ">>)
           \o Grp("page", Star(Cls(WordTokens)))
           \o Word(<<" ", "ye">>))
    \o Opt(Opt(Lit("(("))
           \o Word(<<"wei_zhi", " ", "#">>)
           \o Grp("location", Lazy(Cls(Dot)))
           \o Opt(Lit("))")))
    \o Lit("de")
    \o Grp("type", Alt(<<Lit("biao_zhu"), Lit("bi_ji")>>))
    \o Word(<<" ", "|", " ", "tian_jia_yu", " ">>)
    \o Grp("date", Star(Cls(Dot)))
    \o Eos

delimiter == <<"=", "=", "=", "=", "=", "=", "=", "=", "=", "=">>

----------------------------------------------------------------------------
(* ClippingsIterator.__parse *)

RECURSIVE LStrip(_)
LStrip(s) == IF s # <<>> /\ Head(s) \in SpaceTokens THEN LStrip(Tail(s)) ELSE s

RECURSIVE RStrip(_)
RStrip(s) ==
    IF s # <<>> /\ s[Len(s)] \in SpaceTokens THEN RStrip(SubSeq(s, 1, Len(s) - 1)) ELSE s

\* str.strip()
Strip(s) == RStrip(LStrip(s))

RECURSIVE Join(_)
\* '\n'.join(ls)
Join(ls) ==
    IF ls = <<>> THEN <<>>
    ELSE IF Len(ls) = 1 THEN ls[1]
    ELSE ls[1] \o <<"\n">> \o Join(Tail(ls))

NoException == [type |-> "", msg |-> ""]
TooShort == [type |-> "ValueError", msg |-> "Invalid clipping, less than 4 lines"]
NoResult == [type |-> "Exception", msg |-> "No result"]
Line3NotEmpty == [type |-> "AssertionError", msg |-> "Invalid clipping, line 3 is not empty"]

\* a key the dict does not hold reads as None
NoClipping ==
    [book |-> None, author |-> None, type |-> None, page |-> None,
     location |-> None, date |-> None, contents |-> None]

Raise(e) == [raised |-> TRUE, exc |-> e, value |-> NoClipping]
Return(x) == [raised |-> FALSE, exc |-> NoException, value |-> x]

\* the dict of the Chinese match, with type and page rewritten
ChineseDict(zh) ==
    [type |-> Some(IF zh.v["type"] = Some(<<"biao_zhu">>) THEN <<"Highlight">> ELSE <<"Note">>),
     page |-> IF Truthy(zh.v["page"]) THEN Some(<<"page", " ">> \o zh.v["page"].s) ELSE None,
     location |-> zh.v["location"],
     date |-> zh.v["date"]]

\* groupdict() of the English match
EnglishDict(en) ==
    [type |-> en.v["type"], page |-> en.v["page"],
     location |-> en.v["location"], date |-> en.v["date"]]

\* Line2 with the two grammars tried in the other order
Line2EnglishFirst(line) ==
    LET zh == Search(clipping_line2_chinese, line)
        en == Search(clipping_line2_english, line)
    IN  IF en.ok THEN [raised |-> FALSE, dict |-> EnglishDict(en)]
        ELSE IF zh.ok THEN [raised |-> FALSE, dict |-> ChineseDict(zh)]
        ELSE [raised |-> TRUE, dict |-> EnglishDict(NoMatch)]

\* step 2 of __parse: the dict of line 2, or the exception of unwrap
Line2(line) ==
    LET zh == Search(clipping_line2_chinese, line)
        en == Search(clipping_line2_english, line)
    IN  IF zh.ok THEN [raised |-> FALSE, dict |-> ChineseDict(zh)]
        ELSE IF en.ok THEN [raised |-> FALSE, dict |-> EnglishDict(en)]
        ELSE [raised |-> TRUE, dict |-> EnglishDict(NoMatch)]

\* Update that leaves the dict of line 2 out
UpdateDropped(result, dict) == result

\* result.update(dict)
Update(result, dict) ==
    [result EXCEPT !.type = dict.type, !.page = dict.page,
                   !.location = dict.location, !.date = dict.date]

\* TooFewLines that lets a block of three lines through
TooFewLinesOffByOne(content) == Len(content) < 3

\* len(content) < 4
TooFewLines(content) == Len(content) < 4

\* Separator without the check
SeparatorIgnored(content) == TRUE

\* content[2] == '', the condition of the assert
Separator(content) == content[3] = <<>>

\* content is a list of lines; the lines are numbered from 1 here, from 0 in the source
Parse(content) ==
    IF TooFewLines(content) THEN Raise(TooShort)
    ELSE
      LET m1 == Search(clipping_line1, content[1])
          book == m1.v["book"]
          mb == Search(clipping_book, Strip(book.s))
          l2 == Line2(content[2])
          result == [NoClipping EXCEPT
                        !.book = IF Truthy(book) THEN mb.v["g1"] ELSE book,
                        !.author = m1.v["author"]]
      IN  IF ~m1.ok THEN Raise(NoResult)
          ELSE IF Truthy(book) /\ ~mb.ok THEN Raise(NoResult)
          ELSE IF l2.raised THEN Raise(NoResult)
          ELSE IF ~Separator(content) THEN Raise(Line3NotEmpty)
          ELSE Return([Update(result, l2.dict) EXCEPT
                          !.contents = Some(Strip(Join(SubSeq(content, 4, Len(content)))))])

----------------------------------------------------------------------------
(* ClippingsIterator.__next__ *)

NotInList == 0 - 1

RECURSIVE IndexAfterStart(_, _, _)
\* Index that starts one line late
IndexAfterStart(ls, x, start) ==
    IF start + 1 >= Len(ls) THEN NotInList
    ELSE IF ls[start + 2] = x THEN start + 1
    ELSE IndexAfterStart(ls, x, start + 1)

RECURSIVE Index(_, _, _)
\* ls.index(x, start): the first i >= start with ls[i] == x (0-based), or ValueError
Index(ls, x, start) ==
    IF start >= Len(ls) THEN NotInList
    ELSE IF ls[start + 1] = x THEN start
    ELSE Index(ls, x, start + 1)

Outcome(kind, c, start, cur, value, exc) ==
    [kind |-> kind, cursor |-> c, start |-> start, cur |-> cur, value |-> value, exc |-> exc]

\* Failed with the cursor put back where the call found it
FailedInPlace(start, d, cur, e) ==
    Outcome("InvalidFormatException", start, start, cur, NoClipping, e)

\* the except clause: the exception of __parse becomes InvalidFormatException;
\* the cursor is already past the delimiter at d
Failed(start, d, cur, e) == Outcome("InvalidFormatException", d + 1, start, cur, NoClipping, e)

\* One call of __next__ on an iterator with lines ls and cursor c: how it ends
\* (kind), the cursor it leaves, its locals start and cur, the dict it returns,
\* and for InvalidFormatException the exception e its message is made of
\* (the message also holds cur).
NextCall(ls, c) ==
    IF c >= Len(ls) THEN Outcome("StopIteration", c, c, <<>>, NoClipping, NoException)
    ELSE
      LET start == c
          d == Index(ls, delimiter, start)
          cur == SubSeq(ls, start + 1, d)
          p == Parse(cur)
      IN  IF d = NotInList
          THEN Outcome("ValueError", c, start, <<>>, NoClipping,
                       [type |-> "ValueError", msg |-> "x is not in list"])
          ELSE IF start = d \/ d = Len(ls)
          THEN Outcome("StopIteration", d, start, <<>>, NoClipping, NoException)
          ELSE IF p.raised
          THEN Failed(start, d, cur, p.exc)
          ELSE Outcome("return", d + 1, start, cur, p.value, NoException)

----------------------------------------------------------------------------
(* The sources *)

MaxBlocks == 3
MaxBlockLen == 5

Titles ==
    {<<>>,
     <<"w">>,
     <<"w", " ", "(", "v", ")">>,
     <<" ", "(", "v", ")">>,
     <<"w", "[[", "v", "]]">>,
     <<"[[", "v", "]]">>,
     <<"w", " ", "(", "[", "w", "]", "v", " ", "(", "w", ")", ")">>,
     <<"w", " ", "(", "v", ")", " ", "(", "w", ")">>}

EnglishMetas ==
    {<<"-", " ">> \o your \o type \o page \o <<" ">> \o loc \o <<" ", "7">>
        \o <<" ", "|", " ", "Added", " ", "on", " ">> \o date :
        your \in {<<>>, <<"Your", " ">>},
        type \in {<<>>, <<"w">>},
        page \in {<<>>, <<" ", "on", " ", "Page", " ", "7", " ", "|">>,
                  <<" ", "on", " ", "Unnumbered", " ", "Page", " ", "|">>},
        loc \in {<<"Location">>, <<"Loc", ".">>},
        date \in {<<>>, <<"w">>}}

ChineseMetas ==
    {<<"-", " ", "nin_zai">> \o page \o loc \o <<"de">> \o type
        \o <<" ", "|", " ", "tian_jia_yu", " ">> \o date :
        page \in {<<>>, <<"di", " ", "7", " ", "ye">>, <<"di", " ", " ", "ye">>},
        loc \in {<<>>, <<"wei_zhi", " ", "#", "7">>, <<"((", "wei_zhi", " ", "#", "7", "))">>},
        type \in {<<"biao_zhu">>, <<"bi_ji">>},
        date \in {<<>>, <<"w">>}}

\* a line both grammars match: - 您在第 Location 页位置 # | Added on w的标注 | 添加于 v
BothMetas ==
    {<<"-", " ", "nin_zai", "di", " ", "Location", " ", "ye", "wei_zhi", " ", "#",
       " ", "|", " ", "Added", " ", "on", " ", "w", "de", "biao_zhu",
       " ", "|", " ", "tian_jia_yu", " ", "v">>}

\* lines neither grammar matches
OtherMetas ==
    {<<>>,
     <<"w">>,
     <<"-", " ", "Your", " ", "w", " ", "on", " ", "Page", " ", "7", " ", "|",
       " ", "Added", " ", "on", " ", "w">>,
     <<"-", " ", "nin_zai", "de", "w", " ", "|", " ", "tian_jia_yu", " ", "w">>}

Metas == EnglishMetas \cup ChineseMetas \cup BothMetas \cup OtherMetas

GoodTitle == <<"w", " ", "(", "v", ")">>
GoodMeta ==
    <<"-", " ", "Your", " ", "w", " ", "on", " ", "Page", " ", "7", " ", "|",
      " ", "Location", " ", "7", " ", "|", " ", "Added", " ", "on", " ", "w">>
GoodChineseMeta ==
    <<"-", " ", "nin_zai", "wei_zhi", " ", "#", "7", "de", "biao_zhu",
      " ", "|", " ", "tian_jia_yu", " ", "w">>

\* a line that is almost the delimiter
NearDelimiter == delimiter \o <<" ">>

Thirds == {<<>>, <<" ">>, <<"w">>}
Bodies == {<<"w">>, <<" ">>, NearDelimiter}

\* the first two lines of a block: every title with one line 2, every line 2 with one title
Heads == {<<t, GoodMeta>> : t \in Titles} \cup {<<GoodTitle, m>> : m \in Metas}

RECURSIVE SeqsOf(_, _)
\* the sequences of length n over S
SeqsOf(S, n) ==
    IF n = 0 THEN {<<>>} ELSE {<<x>> \o r : x \in S, r \in SeqsOf(S, n - 1)}

\* blocks of 1 .. MaxBlockLen lines, none of them the delimiter
RichBlocks ==
    {SubSeq(h \o <<t>> \o b, 1, n) :
        h \in Heads, t \in Thirds, b \in SeqsOf({<<"w">>, <<" ">>}, MaxBlockLen - 3),
        n \in 1..MaxBlockLen}

\* a few blocks, the empty one among them, for the sources of several blocks
PlainBlocks ==
    {<<>>,
     <<GoodTitle, GoodMeta, <<>>, <<"w">>>>,
     <<<<"v">>, GoodChineseMeta, <<>>, <<"v">>, NearDelimiter>>,
     <<GoodTitle, GoodMeta, <<>>>>,
     <<GoodTitle, GoodMeta, <<"w">>, <<"w">>>>,
     <<GoodTitle, <<"w">>, <<>>, <<"w">>>>}

RECURSIVE Flatten(_)
\* the lines of a sequence of blocks, each block followed by a delimiter line
Flatten(bs) ==
    IF bs = <<>> THEN <<>> ELSE Head(bs) \o <<delimiter>> \o Flatten(Tail(bs))

\* lines after the last delimiter
Tails == {<<>>, <<<<"w">>>>, <<GoodTitle, GoodMeta, <<>>, <<"w">>>>}

Sources ==
    {Flatten(bs) \o tail : bs \in UNION {SeqsOf(PlainBlocks, n) : n \in 0..MaxBlocks},
                           tail \in Tails}
    \cup {Flatten(<<b>>) \o tail : b \in RichBlocks, tail \in {<<>>, <<<<"w">>>>}}

----------------------------------------------------------------------------
(* The state machine *)

NotCalled == Outcome("none", 0, 0, <<>>, NoClipping, NoException)
Nothing == [bound |-> FALSE, clippings |-> <<>>, book_author_couples |-> {}]

\* ClippingsIterator.__init__ and the first lines of Clippings.__init__
Init ==
    /\ lines \in Sources
    /\ cursor = 0
    /\ ret = NotCalled
    /\ clippings = <<>>
    /\ book_author_couples = {}
    /\ pc = "fetch"
    /\ yielded = <<>>
    /\ exposed = Nothing

\* what __next__ does to the iterator, whoever calls it
Advance(r) ==
    /\ cursor' = r.cursor
    /\ ret' = r
    /\ yielded' = IF r.kind \in {"return", "InvalidFormatException"}
                  THEN Append(yielded, r.cur) ELSE yielded

\* FetchAppend that puts the clipping at the front
FetchPrepend ==
    /\ pc = "fetch"
    /\ LET r == NextCall(lines, cursor)
       IN  /\ r.kind = "return"
           /\ Advance(r)
           /\ clippings' = <<r.value>> \o clippings
    /\ UNCHANGED <<lines, book_author_couples, pc, exposed>>

\* _fetch: __next__ returns a clipping and the loop appends it
FetchAppend ==
    /\ pc = "fetch"
    /\ LET r == NextCall(lines, cursor)
       IN  /\ r.kind = "return"
           /\ Advance(r)
           /\ clippings' = Append(clippings, r.value)
    /\ UNCHANGED <<lines, book_author_couples, pc, exposed>>

\* _fetch: StopIteration ends the loop, the couples are derived, __init__ returns
FetchDone ==
    /\ pc = "fetch"
    /\ LET r == NextCall(lines, cursor)
           couples == {<<clippings[i].book, clippings[i].author>> : i \in 1..Len(clippings)}
       IN  /\ r.kind = "StopIteration"
           /\ Advance(r)
           /\ book_author_couples' = couples
           /\ exposed' = [bound |-> TRUE, clippings |-> clippings,
                          book_author_couples |-> couples]
    /\ pc' = "done"
    /\ UNCHANGED <<lines, clippings>>

\* FetchRaise that skips the block and goes on with the loop
FetchSkip ==
    /\ pc = "fetch"
    /\ LET r == NextCall(lines, cursor)
       IN  /\ r.kind \in {"InvalidFormatException", "ValueError"}
           /\ Advance(r)
           /\ pc' = IF r.kind = "ValueError" THEN "raised" ELSE "fetch"
    /\ UNCHANGED <<lines, clippings, book_author_couples, exposed>>

\* _fetch: __next__ raises, nothing catches it, Clippings(source) raises
FetchRaise ==
    /\ pc = "fetch"
    /\ LET r == NextCall(lines, cursor)
       IN  /\ r.kind \in {"InvalidFormatException", "ValueError"}
           /\ Advance(r)
    /\ pc' = "raised"
    /\ UNCHANGED <<lines, clippings, book_author_couples, exposed>>

Next == FetchAppend \/ FetchDone \/ FetchRaise

Spec == Init /\ [][Next]_vars

\* a caller that holds the iterator itself and calls __next__ again and again
CallNext ==
    /\ Advance(NextCall(lines, cursor))
    /\ UNCHANGED <<lines, clippings, book_author_couples, pc, exposed>>

NextIter == CallNext

SpecIter == Init /\ [][NextIter]_vars

----------------------------------------------------------------------------
(* The claims *)

IsDelimiter(i) == lines[i] = delimiter

\* the last __next__ call handed a block to __parse
Parsed == ret.kind \in {"return", "InvalidFormatException"}

\* line 2 of the block the last call parsed, under each grammar
RetChinese == Search(clipping_line2_chinese, ret.cur[2])
RetEnglish == Search(clipping_line2_english, ret.cur[2])

\* the block has at least 4 lines, an empty line at index 2, and a line at
\* index 1 that one of the two grammars matches
WellFormed == Len(ret.cur) >= 4 /\ ret.cur[3] = <<>> /\ (RetChinese.ok \/ RetEnglish.ok)

\* C1 as stated: a well-formed block parses without raising, and book, type
\* and date of the record are neither None nor empty.
C1_RequiredNonEmpty ==
    (Parsed /\ WellFormed) =>
        /\ ret.kind = "return"
        /\ \A f \in {"book", "type", "date"} : Truthy(ret.value[f])

\* C1 as amended: a well-formed block parses without raising, and book, type
\* and date of the record are not None (each is a string, which may be empty).
C1_RequiredNotNone ==
    (Parsed /\ WellFormed) =>
        /\ ret.kind = "return"
        /\ \A f \in {"book", "type", "date"} : ~ret.value[f].none

\* a well-formed block with an empty title line was parsed: its book is ''
C1_Witness ==
    /\ Parsed /\ WellFormed
    /\ ret.kind = "return"
    /\ ret.value.book = Some(<<>>)
    /\ ret.value.date # Some(<<>>)

\* C2 as stated: a __next__ call that finds no delimiter at or after the
\* cursor, or finds the delimiter at the cursor, ends with StopIteration.
C2_EndsWithStopIteration ==
    (/\ ret.kind # "none"
     /\ \/ \A i \in (ret.start + 1)..Len(lines) : ~IsDelimiter(i)
        \/ (ret.start < Len(lines) /\ IsDelimiter(ret.start + 1)))
    => ret.kind = "StopIteration"

\* C3: a block whose parse fails is the last block parsed, the build has
\* raised InvalidFormatException for that block, and once the build has
\* raised the caller holds no collection, however many records were parsed.
C3_FailFast ==
    /\ \A i \in 1..Len(yielded) :
          Parse(yielded[i]).raised =>
              /\ i = Len(yielded)
              /\ pc = "raised"
              /\ ret.kind = "InvalidFormatException"
              /\ ret.cur = yielded[i]
              /\ Len(clippings) = i - 1
    /\ pc = "raised" => ~exposed.bound /\ exposed = Nothing

\* the build raised on a block after it had parsed a record, with more of
\* the source left to read
C3_Witness ==
    /\ pc = "raised"
    /\ ret.kind = "InvalidFormatException"
    /\ Len(clippings) >= 1
    /\ cursor < Len(lines)
    /\ \E i \in (cursor + 1)..Len(lines) : IsDelimiter(i)

\* C4: a block of 1, 2 or 3 lines makes __next__ raise InvalidFormatException
\* (made of the ValueError of __parse), and no record is returned.
C4_ShortBlockFails ==
    (Parsed /\ Len(ret.cur) < 4) =>
        /\ Len(ret.cur) >= 1
        /\ ret.kind = "InvalidFormatException"
        /\ ret.exc = TooShort
        /\ ret.value = NoClipping

\* a block of three lines, the third of them empty, was refused
C4_Witness ==
    /\ ret.kind = "InvalidFormatException"
    /\ Len(ret.cur) = 3
    /\ ret.cur[3] = <<>>
    /\ RetEnglish.ok

\* C5: a block of at least 4 lines whose line at index 2 is not empty makes
\* the build raise InvalidFormatException; the exception holds the cause (the
\* failed assert when line 2 matches a grammar, 'No result' otherwise) and the
\* lines of that block, lines[start:d], and no record is added for it.
C5_SeparatorNotEmpty ==
    (Parsed /\ Len(ret.cur) >= 4 /\ ret.cur[3] # <<>>) =>
        /\ ret.kind = "InvalidFormatException"
        /\ pc = "raised"
        /\ ~exposed.bound
        /\ ret.exc = IF RetChinese.ok \/ RetEnglish.ok THEN Line3NotEmpty ELSE NoResult
        /\ ret.cur = SubSeq(lines, ret.start + 1, cursor - 1)
        /\ IsDelimiter(cursor)
        /\ Len(clippings) = Len(yielded) - 1

\* the second block of a source has a non-empty third line, the build
\* raised on it, and its line 2 matches a grammar
C5_Witness ==
    /\ pc = "raised"
    /\ Parsed /\ Len(ret.cur) >= 4 /\ ret.cur[3] # <<>>
    /\ RetEnglish.ok
    /\ ret.start > 0

\* the delimiter lines that end a run of at least one line
EndsOfBlocks == {d \in 1..Len(lines) : IsDelimiter(d) /\ d > 1 /\ ~IsDelimiter(d - 1)}

\* C6 as stated: a build that succeeds holds one Clipping for every
\* delimiter-terminated run of lines of the source.
C6_NoBlockLeftOut ==
    pc = "done" => Len(clippings) = Cardinality(EndsOfBlocks)

\* C7: on a successful build the i-th element of clippings is the record
\* parsed from the i-th block the iterator yielded, the blocks yielded are
\* the leading delimiter-terminated runs of the source in order, and the
\* caller holds that list.
C7_SourceOrder ==
    /\ pc \in {"fetch", "done"} =>
          /\ Len(clippings) = Len(yielded)
          /\ \A i \in 1..Len(yielded) :
                /\ ~Parse(yielded[i]).raised
                /\ clippings[i] = Parse(yielded[i]).value
          /\ Flatten(yielded) = SubSeq(lines, 1, Len(Flatten(yielded)))
    /\ pc = "done" => exposed.bound /\ exposed.clippings = clippings

\* a build succeeded with two different records
C7_Witness ==
    /\ pc = "done"
    /\ Len(clippings) >= 2
    /\ clippings[1] # clippings[2]

\* C8: when the Chinese grammar matches line 2, type, page, location and date
\* come from the Chinese match (type as 'Highlight' or 'Note', a non-empty
\* page with 'page ' before it), also when the English grammar matches too;
\* the English match is used only when the Chinese grammar does not match;
\* 'No result' is raised for line 2 only when neither matches.
C8_ChineseFirst ==
    (Parsed /\ Len(ret.cur) >= 4) =>
        LET zh == RetChinese
            en == RetEnglish
            r == ret.value
        IN  /\ (ret.kind = "return" /\ zh.ok) =>
                  /\ r.type = IF zh.v["type"].s = <<"biao_zhu">>
                              THEN Some(<<"Highlight">>) ELSE Some(<<"Note">>)
                  /\ zh.v["type"].s \in {<<"biao_zhu">>, <<"bi_ji">>}
                  /\ r.page = IF zh.v["page"].none \/ zh.v["page"].s = <<>>
                              THEN None ELSE Some(<<"page", " ">> \o zh.v["page"].s)
                  /\ r.location = zh.v["location"]
                  /\ r.date = zh.v["date"]
            /\ (ret.kind = "return" /\ ~zh.ok) =>
                  /\ en.ok
                  /\ r.type = en.v["type"] /\ r.page = en.v["page"]
                  /\ r.location = en.v["location"] /\ r.date = en.v["date"]
            /\ (ret.exc = NoResult) <=> (~zh.ok /\ ~en.ok)
            /\ (zh.ok \/ en.ok) => (ret.kind = "return" \/ ret.exc = Line3NotEmpty)

\* a line 2 that both grammars match was parsed, and the record holds the
\* fields of the Chinese match, which differ from those of the English match
C8_Witness ==
    /\ Parsed /\ ret.kind = "return"
    /\ RetChinese.ok /\ RetEnglish.ok
    /\ ret.value.type = Some(<<"Highlight">>)
    /\ ret.value.type # RetEnglish.v["type"]
    /\ ret.value.date # RetEnglish.v["date"]

\* C9: in every __next__ call the cursor does not decrease; a call that
\* hands a block to __parse starts at the cursor, ends at the first delimiter
\* line d at or after it, hands over lines[start:d], which holds no
\* delimiter line, and leaves the cursor at d + 1.
C9_Blocks ==
    [][/\ cursor' >= cursor
       /\ ret'.kind \in {"return", "InvalidFormatException"} =>
             LET start == cursor
                 d == cursor' - 1
             IN  /\ ret'.start = start
                 /\ d > start
                 /\ lines[d + 1] = delimiter
                 /\ \A j \in (start + 1)..d : lines[j] # delimiter
                 /\ ret'.cur = SubSeq(lines, start + 1, d)
                 /\ cursor' = ret'.start + Len(ret'.cur) + 1]_vars

\* a second block was handed to __parse, right after the delimiter of the first
C9_Witness ==
    /\ Len(yielded) >= 2
    /\ Parsed
    /\ ret.start = Len(yielded[1]) + 1
    /\ ret.cur = yielded[2]
    /\ cursor = Len(yielded[1]) + Len(yielded[2]) + 2

\* C10: a __next__ call that raises InvalidFormatException has moved the
\* cursor to one past the delimiter of the block it failed on, and the call
\* after it starts there: it reads the block after the failed one.
C10_CursorAfterFailure ==
    [][/\ ret'.kind = "InvalidFormatException" =>
             /\ cursor' = ret'.start + Len(ret'.cur) + 1
             /\ cursor' > cursor
             /\ lines[cursor'] = delimiter
       /\ ret.kind = "InvalidFormatException" =>
             /\ ret'.start = ret.start + Len(ret.cur) + 1
             /\ ret'.kind \in {"return", "InvalidFormatException"} =>
                   ret'.cur = SubSeq(lines, ret.start + Len(ret.cur) + 2, cursor' - 1)]_vars

\* after a call that failed on the first block, the next call returned the
\* record of the second block
C10_Witness ==
    /\ Len(yielded) = 2
    /\ Parse(yielded[1]).raised
    /\ ret.kind = "return"
    /\ ret.cur = yielded[2]
    /\ ret.start = Len(yielded[1]) + 1

====
